---- MODULE Spec2Model ----
(***************************************************************************)
(* Image-Tagger: the per-image enrichment pipeline and its batch drivers.  *)
(*                                                                         *)
(* Three variants of the pipeline live in the repository:                  *)
(*   "ImageProcessor"      src/src/image_processor.py + src/src/main.py    *)
(*   "EnhancedImageTagger" src/vision_gemini_tagger.py                     *)
(*   "ImageTagger"         src/vision_tagger.py                            *)
(*                                                                         *)
(* Text is modelled as a sequence of one-character tokens, a file name as  *)
(* a stem (a token sequence) and an extension, a path as a directory part  *)
(* and a file name.  A Python dict is a function whose DOMAIN is the set   *)
(* of its keys.                                                            *)
(***************************************************************************)
EXTENDS Integers, Sequences, FiniteSets, TLC

\* ------------------------------------------------------------------ bounds

\* Most files a directory holds at the start of a run.
MaxFiles == 2
\* Longest prefix and suffix put around the padding of a title (SpecDeriver).
MaxAffix == 2
\* Most remote outcomes the environment holds ready for one generative call.
MaxAttempts == 2

\* ------------------------------------------------------- program constants

\* sanitized[:50]
TruncateAt == 50

\* --------------------------------------------------------------- characters

Alnum == {"a", "p", "q", "1", "2", "3", "4", "5", "6", "7", "8", "9", "0"}
Whitespace == {" ", "\t"}
Kept == {" ", "-", "_", "."}

\* str.isalnum() of one character
IsAlnum(c) == c \in Alnum

Min(a, b) == IF a < b THEN a ELSE b

RECURSIVE LStrip(_)
\* str.lstrip(): drop leading whitespace
LStrip(s) ==
  IF s = <<>> THEN <<>>
  ELSE IF Head(s) \in Whitespace THEN LStrip(Tail(s)) ELSE s

RECURSIVE RStrip(_)
\* str.rstrip(): drop trailing whitespace
RStrip(s) ==
  IF s = <<>> THEN <<>>
  ELSE IF s[Len(s)] \in Whitespace THEN RStrip(SubSeq(s, 1, Len(s) - 1)) ELSE s

\* str.strip()
Strip(s) == RStrip(LStrip(s))

\* c if c.isalnum() or c in " -_." else "_"
SanitizeChar(c) == IF IsAlnum(c) \/ c \in Kept THEN c ELSE "_"

\* Sanitize without the strip after the cut.
SanitizeNoSecondStrip(title) ==
  LET stripped == Strip(title)
      mapped == [i \in 1..Len(stripped) |-> SanitizeChar(stripped[i])]
  IN SubSeq(mapped, 1, Min(Len(mapped), TruncateAt))

\* "".join(... for c in title.strip())[:50].strip()
Sanitize(title) ==
  LET stripped == Strip(title)
      mapped == [i \in 1..Len(stripped) |-> SanitizeChar(stripped[i])]
  IN Strip(SubSeq(mapped, 1, Min(Len(mapped), TruncateAt)))

\* str.lower() of an extension
Lower(ext) ==
  CASE ext = ".JPG" -> ".jpg"
    [] ext = ".PNG" -> ".png"
    [] ext = ".JPEG" -> ".jpeg"
    [] OTHER -> ext

RECURSIVE Digits(_)
\* str(counter) inside the f-string: the decimal digits of a positive integer
Digits(n) ==
  LET d == <<"0", "1", "2", "3", "4", "5", "6", "7", "8", "9">>
  IN IF n < 10 THEN <<d[n + 1]>> ELSE Digits(n \div 10) \o <<d[(n % 10) + 1]>>

\* A file name: os.path.splitext(name) == (stem, ext).
FileName(stem, ext) == [stem |-> stem, ext |-> ext]

\* f"{sanitized}{ext}" for counter 0, f"{sanitized}_{counter}{ext}" otherwise
Candidate(sanitized, counter, ext) ==
  IF counter = 0 THEN FileName(sanitized, ext)
  ELSE FileName(sanitized \o <<"_">> \o Digits(counter), ext)

\* os.path.join(input_path, file): a path relative to the working directory
JoinPath(name) == [dir |-> "rel", name |-> name]

\* os.path.abspath(path)
AbsPath(path) == [dir |-> "abs", name |-> path.name]

\* os.path.basename(path)
BaseName(path) == path.name

\* os.path.join(os.path.dirname(original_path), new_name)
Sibling(path, name) == [dir |-> path.dir, name |-> name]

\* file.lower().endswith(('.jpg', '.jpeg', '.png'))
Accepted(name) == Lower(name.ext) \in {".jpg", ".jpeg", ".png"}

\* filename.lower().endswith(('.jpg', '.jpeg'))
IsJpeg(name) == Lower(name.ext) \in {".jpg", ".jpeg"}

\* ------------------------------------------------------------------ dicts

\* {**f, **g}: the keys of both, g's value where both have the key
Merge(f, g) ==
  [k \in (DOMAIN f) \cup (DOMAIN g) |-> IF k \in DOMAIN g THEN g[k] ELSE f[k]]

\* d.get(k, default)
Get(d, k, default) == IF k \in DOMAIN d THEN d[k] ELSE default

\* {}
EmptyDict == [k \in {} |-> <<>>]

\* A JSON / Python value carries its type: a string (a token sequence) or a list.
Str(v) == [t |-> "str", v |-> v]
List(v) == [t |-> "list", v |-> v]

\* required_fields
RequiredFields == {"title", "description", "main_genre", "secondary_genre", "keywords"}

\* "Non spécifié"
Placeholder == Str(<<"Non specifie">>)

\* ----------------------------------------------- generative response text

(* The text of a generative response: optional prose before, an optional    *)
(* opening ```json fence, a body, an optional closing ``` fence, optional   *)
(* prose after.  The body is a JSON object ("object", with its dict), a     *)
(* JSON value that is no object and holds no brace ("nonobject": a list, a *)
(* number), text in braces that is no JSON ("badbraces") or text without    *)
(* braces that is no JSON ("garbage").  Prose holds no braces.              *)
Text(pre, open, body, close, post) ==
  [pre |-> pre, open |-> open, body |-> body, close |-> close, post |-> post]

ObjectBody(obj) == [kind |-> "object", obj |-> obj]
OtherBody(kind) == [kind |-> kind, obj |-> EmptyDict]

HasBraces(text) == text.body.kind \in {"object", "badbraces"}

\* json.loads(s): the parsed value, or JSONDecodeError
JsonLoads(text) ==
  IF text.pre \/ text.open \/ text.close \/ text.post
       \/ text.body.kind \in {"garbage", "badbraces"}
  THEN [ok |-> FALSE, kind |-> "none", obj |-> EmptyDict]
  ELSE [ok |-> TRUE, kind |-> text.body.kind, obj |-> text.body.obj]

\* re.sub(r'[\s\S]*?({.*})[\s\S]*?', r'\1', raw_text, flags=re.DOTALL): the one
\* match runs from the start of the text to its last brace and is replaced by
\* its part from the first brace on; what follows the last brace stays. A text
\* without braces has no match and stays whole.
ReSubBraces(text) ==
  IF HasBraces(text) THEN [text EXCEPT !.pre = FALSE, !.open = FALSE] ELSE text

\* .replace("```json", "").replace("```", "").strip()
StripFences(text) == [text EXCEPT !.open = FALSE, !.close = FALSE]

\* The full default record of the except branch.
FullDefault ==
  [k \in RequiredFields |-> IF k = "keywords" THEN List(<<>>) ELSE Placeholder]

\* for field in required_fields: if field not in result: result[field] = "Non spécifié"
FillMissing(result) ==
  [k \in (DOMAIN result) \cup RequiredFields |->
     IF k \in DOMAIN result THEN result[k] ELSE Placeholder]

Returned(value) == [raised |-> FALSE, exc |-> "none", value |-> value]
Raised(exc) == [raised |-> TRUE, exc |-> exc, value |-> EmptyDict]

\* EnhancedImageTagger._parse_gemini_response(response): what it returns, or the
\* exception that leaves it (only json.JSONDecodeError is caught).
EnhancedParseGeminiResponse(response) ==
  IF ~response.hasText THEN Raised("KeyError")
  ELSE LET parsed == JsonLoads(StripFences(ReSubBraces(response.text)))
       IN IF ~parsed.ok THEN Returned(FullDefault)
          ELSE IF parsed.kind # "object" THEN Raised("TypeError")
          ELSE Returned(FillMissing(parsed.obj))

\* re.search(r'({.*})', text, re.DOTALL).group(1): from the first brace to the
\* last one; no match gives None, whose .group raises.
ReSearchBraces(text) ==
  IF HasBraces(text)
  THEN [found |-> TRUE, text |-> Text(FALSE, FALSE, text.body, FALSE, FALSE)]
  ELSE [found |-> FALSE, text |-> text]

\* ImageProcessor._parse_gemini_response(text): every exception gives {}.
ParseGeminiResponse(text) ==
  LET m == ReSearchBraces(text)
  IN IF ~m.found THEN EmptyDict
     ELSE LET parsed == JsonLoads(m.text)
          IN IF parsed.ok THEN parsed.obj ELSE EmptyDict

\* ------------------------------------------------------- remote outcomes

\* What one call of the generative service gives: an error of some class, or a
\* response that may lack its text field.
RemoteError(exc) == [kind |-> "error", exc |-> exc, hasText |-> FALSE,
                     text |-> Text(FALSE, FALSE, OtherBody("garbage"), FALSE, FALSE)]
RemoteResponse(hasText, text) ==
  [kind |-> "response", exc |-> "none", hasText |-> hasText, text |-> text]

ErrorClasses == {"DeadlineExceeded", "ServiceUnavailable", "ResourceExhausted", "InvalidArgument"}

\* The body of EnhancedImageTagger._gemini_analysis under one remote outcome:
\* every exception of the call or of the parse is caught and gives {}.
GeminiAnalysisBody(outcome) ==
  LET r == IF outcome.kind = "error" THEN Raised(outcome.exc)
           ELSE EnhancedParseGeminiResponse(outcome)
  IN IF r.raised THEN Returned(EmptyDict) ELSE r

\* The predicate of retry.Retry() when none is given: the library's
\* if_transient_error (InternalServerError, TooManyRequests and its subclass
\* ResourceExhausted, ServiceUnavailable).
RetryPredicate(exc) ==
  exc \in {"InternalServerError", "TooManyRequests", "ResourceExhausted", "ServiceUnavailable"}

RECURSIVE RetryGeminiAnalysis(_, _)
\* @retry.Retry(deadline=30.0, ...) around _gemini_analysis: call the body, and
\* call it again only when an exception leaves it that the predicate accepts and
\* the deadline (here: the outcomes held ready) allows. [result, calls].
RetryGeminiAnalysis(outcomes, i) ==
  LET r == GeminiAnalysisBody(outcomes[i])
  IN IF r.raised /\ RetryPredicate(r.exc) /\ i < Len(outcomes)
     THEN RetryGeminiAnalysis(outcomes, i + 1)
     ELSE [result |-> r, calls |-> i]

\* ImageProcessor._analyze_with_gemini under one remote outcome: one call, no
\* retry; an error of the call or a response without .text gives {}.
AnalyzeWithGeminiResult(outcome) ==
  IF outcome.kind = "error" \/ ~outcome.hasText THEN EmptyDict
  ELSE ParseGeminiResponse(outcome.text)

\* ------------------------------------------------------------ file system

\* FirstFree with no existence test at all: the plain name is taken as it is.
FirstFreeNoCheck(names, sanitized, ext, counter) == counter

\* FirstFree with the existence test made once, not after every increment.
FirstFreeCheckedOnce(names, sanitized, ext, counter) ==
  IF Candidate(sanitized, counter, ext) \in names THEN counter + 1 ELSE counter

RECURSIVE FirstFree(_, _, _, _)
\* counter = 1; while os.path.exists(new_path): ...; counter += 1
\* The first counter (0: no suffix) whose candidate name is not on disk.
FirstFree(names, sanitized, ext, counter) ==
  IF Candidate(sanitized, counter, ext) \in names
  THEN FirstFree(names, sanitized, ext, counter + 1)
  ELSE counter

\* os.rename(src, dst) on a directory d (name -> file): the file leaves its old
\* name and is found under the new one.
OsRename(d, src, dst) ==
  [n \in ((DOMAIN d) \ {src}) \cup {dst} |-> IF n = dst THEN d[src] ELSE d[n]]

\* RenameFileResult whose handler returns the name it had chosen.
RenameFileReturnsNewPath(d, original_path, title, os_ok) ==
  LET ext == Lower(BaseName(original_path).ext)
      sanitized == Sanitize(title.v)
      counter == FirstFree(DOMAIN d, sanitized, ext, 0)
      new_path == Sibling(original_path, Candidate(sanitized, counter, ext))
  IN IF title.t # "str" \/ ~os_ok \/ BaseName(original_path) \notin DOMAIN d
     THEN [path |-> new_path, disk |-> d, failed |-> TRUE]
     ELSE [path |-> new_path,
           disk |-> OsRename(d, BaseName(original_path), BaseName(new_path)),
           failed |-> FALSE]

\* ImageProcessor._rename_file(original_path, title) on directory d; os_ok says
\* whether the operating system lets the rename through. [path, disk, failed]:
\* any exception gives the original path and leaves the directory alone.
RenameFileResult(d, original_path, title, os_ok) ==
  LET ext == Lower(BaseName(original_path).ext)
      sanitized == Sanitize(title.v)
      counter == FirstFree(DOMAIN d, sanitized, ext, 0)
      new_path == Sibling(original_path, Candidate(sanitized, counter, ext))
  IN IF title.t # "str" \/ ~os_ok \/ BaseName(original_path) \notin DOMAIN d
     THEN [path |-> original_path, disk |-> d, failed |-> TRUE]
     ELSE [path |-> new_path,
           disk |-> OsRename(d, BaseName(original_path), BaseName(new_path)),
           failed |-> FALSE]

\* WriteMetadataResult with both writes in one failure boundary: a legacy
\* failure ends the function before the extensible write.
WriteMetadataOneBoundary(image_path, on_disk, iptc_ok, xmp_ok) ==
  LET iptc == IF IsJpeg(BaseName(image_path))
              THEN (IF on_disk /\ iptc_ok THEN "ok" ELSE "failed")
              ELSE "skipped"
      xmp == IF iptc = "failed" THEN "skipped"
             ELSE IF on_disk /\ xmp_ok THEN "ok" ELSE "failed"
  IN [iptc |-> iptc, xmp |-> xmp, success |-> iptc # "failed" /\ xmp = "ok"]

\* ImageProcessor._write_metadata(image_path, metadata): on_disk says whether
\* the path names a file, iptc_ok and xmp_ok whether each library call goes
\* through. [iptc, xmp, success], iptc and xmp in "skipped", "ok", "failed".
WriteMetadataResult(image_path, on_disk, iptc_ok, xmp_ok) ==
  LET success0 == TRUE
      iptc == IF IsJpeg(BaseName(image_path))
              THEN (IF on_disk /\ iptc_ok THEN "ok" ELSE "failed")
              ELSE "skipped"
      success1 == IF iptc = "failed" THEN FALSE ELSE success0
      xmp == IF on_disk /\ xmp_ok THEN "ok" ELSE "failed"
      success2 == IF xmp = "failed" THEN FALSE ELSE success1
  IN [iptc |-> iptc, xmp |-> xmp, success |-> success2]

\* ------------------------------------------------------------------ state

VARIABLES
  variant,          \* which of the three programs runs
  mode,             \* "dir": the input path is a directory; "file": one file
  disk,             \* the directory: file name -> file
  entries,          \* what the driver iterates over: os.listdir(input), or the one file
  idx,              \* the entry the driver is at
  pc,               \* where the per-image pipeline is ("idle": between images)
  image_path,       \* locals of the per-image pipeline
  original_path,
  image_bytes,
  vision_data,
  gemini_data,
  new_path,
  metadata_status,
  results,          \* the report
  audit,            \* per pipeline run, in order: the file and what failed on the way
  calls,            \* generative calls made for the image at hand
  gen_first,        \* the error class of the first of them ("none": it answered)
  detection,        \* for the image at hand: "none", "ok", "failed"
  renaming,         \* "none", "ok", "failed"
  iptc,             \* "none", "skipped", "ok", "failed"
  xmp,
  unit              \* the call at hand of the function-level specifications

vars == <<variant, mode, disk, entries, idx, pc, image_path, original_path,
          image_bytes, vision_data, gemini_data, new_path, metadata_status,
          results, audit, calls, gen_first, detection, renaming, iptc, xmp, unit>>

locals == <<image_path, original_path, image_bytes, vision_data, gemini_data,
            new_path, metadata_status, calls, gen_first, detection, renaming,
            iptc, xmp>>

NoPath == [dir |-> "none", name |-> FileName(<<>>, "")]
NoVision == [labels |-> <<>>, web_entities |-> <<>>]
NoUnit == [op |-> "none"]

\* ----------------------------------------------------------------- inputs

NamePool ==
  { FileName(<<"p">>, ".jpg"), FileName(<<"p", "_", "1">>, ".jpg"),
    FileName(<<"a">>, ".JPG"), FileName(<<"q">>, ".png"), FileName(<<"n">>, ".txt") }

\* The directory listings: the pool's names, each at most once, in any order.
Listings ==
  { s \in UNION { [1..n -> NamePool] : n \in 0..MaxFiles } :
      \A i, j \in DOMAIN s : i # j => s[i] # s[j] }

FullObject(title) ==
  [k \in RequiredFields |->
     CASE k = "title" -> Str(title)
       [] k = "keywords" -> List(<<"k">>)
       [] OTHER -> Str(<<"B">>)]

\* '{"title":"A","description":"B"}'
PartialObject(title) ==
  [k \in {"title", "description"} |-> IF k = "title" THEN Str(title) ELSE Str(<<"B">>)]

Plain(body) == Text(FALSE, FALSE, body, FALSE, FALSE)

\* The remote generative outcomes of the pipeline specification.
PipelineOutcomes ==
  { RemoteError(e) : e \in ErrorClasses }
  \cup { RemoteResponse(FALSE, Plain(OtherBody("garbage"))) }
  \cup { RemoteResponse(TRUE, t) :
           t \in { Plain(OtherBody("garbage")),
                   Plain(OtherBody("nonobject")),
                   Text(TRUE, TRUE, ObjectBody(FullObject(<<"p">>)), TRUE, FALSE),
                   Plain(ObjectBody(FullObject(<<"p">>))),
                   Plain(ObjectBody(PartialObject(<<"p">>))) } }

\* What the detection service answers when it answers.
VisionAnswer == [labels |-> <<"cat">>, web_entities |-> <<"web">>]

\* -------------------------------------------------------------------- Init

IdleLocals ==
  /\ image_path = NoPath
  /\ original_path = NoPath
  /\ image_bytes = "none"
  /\ vision_data = NoVision
  /\ gemini_data = EmptyDict
  /\ new_path = NoPath
  /\ metadata_status = FALSE
  /\ calls = 0
  /\ gen_first = "none"
  /\ detection = "none"
  /\ renaming = "none"
  /\ iptc = "none"
  /\ xmp = "none"

ResetLocals ==
  /\ image_path' = NoPath
  /\ original_path' = NoPath
  /\ image_bytes' = "none"
  /\ vision_data' = NoVision
  /\ gemini_data' = EmptyDict
  /\ new_path' = NoPath
  /\ metadata_status' = FALSE
  /\ calls' = 0
  /\ gen_first' = "none"
  /\ detection' = "none"
  /\ renaming' = "none"
  /\ iptc' = "none"
  /\ xmp' = "none"

\* The state after the driver has built its processor and taken its listing:
\* results = [], the directory as found.
Init ==
  /\ variant \in {"ImageProcessor", "EnhancedImageTagger", "ImageTagger"}
  /\ mode \in {"dir", "file"}
  /\ variant = "ImageTagger" => mode = "dir"
  /\ \E files \in Listings :
       /\ disk = [n \in {files[i] : i \in DOMAIN files} |->
                    CHOOSE i \in DOMAIN files : files[i] = n]
       /\ IF mode = "dir" THEN entries = files
          ELSE \E f \in DOMAIN files : entries = <<files[f]>>
  /\ idx = 1
  /\ pc = "idle"
  /\ IdleLocals
  /\ results = <<>>
  /\ audit = <<>>
  /\ unit = NoUnit

\* The entry at hand.
Entry == entries[idx]

Audit(file, det, ren) == [file |-> file, detection |-> det, renaming |-> ren]

\* The pipeline run ends: its records (one, or none) join the report and the
\* driver moves on to the next entry.
Return(records, entry) ==
  /\ results' = results \o records
  /\ audit' = Append(audit, entry)
  /\ idx' = idx + 1
  /\ pc' = "idle"
  /\ ResetLocals

\* s[:n]
Take(s, n) == SubSeq(s, 1, Min(Len(s), n))

RECURSIVE JoinTokens(_, _)
\* sep.join(words), each word one token
JoinTokens(words, sep) ==
  IF words = <<>> THEN <<>>
  ELSE IF Len(words) = 1 THEN words
  ELSE <<Head(words), sep>> \o JoinTokens(Tail(words), sep)

\* ------------------------------------- ImageProcessor (src/src/main.py)

\* for file in os.listdir(...): if file.lower().endswith(...): an entry that
\* fails the test is passed over.
MainSkipEntry ==
  /\ variant = "ImageProcessor" /\ mode = "dir"
  /\ pc = "idle" /\ idx <= Len(entries)
  /\ ~Accepted(Entry)
  /\ idx' = idx + 1
  /\ UNCHANGED <<variant, mode, disk, entries, pc, locals, results, audit, unit>>

\* process_single_image, entry to resize_image: the resized JPEG, the raw bytes
\* when the resize fails, or the exception of the raw read, which the outer
\* handler turns into {"error": ...}.
ResizeImage ==
  /\ variant = "ImageProcessor"
  /\ pc = "idle" /\ idx <= Len(entries)
  /\ mode = "file" \/ Accepted(Entry)
  /\ \E out \in (IF Entry \in DOMAIN disk THEN {"jpeg", "raw", "ioerror"} ELSE {"ioerror"}) :
       IF out = "ioerror"
       THEN Return(<<[error |-> "IOError"]>>, Audit(Entry, "none", "none"))
       ELSE /\ image_path' = JoinPath(Entry)
            /\ original_path' = AbsPath(JoinPath(Entry))
            /\ image_bytes' = out
            /\ pc' = "normalized"
            /\ UNCHANGED <<idx, results, audit, vision_data, gemini_data, new_path,
                           metadata_status, calls, gen_first, detection, renaming,
                           iptc, xmp>>
  /\ UNCHANGED <<variant, mode, disk, entries, unit>>

\* _analyze_with_vision: no handler of its own, so a remote error leaves it and
\* reaches the handler of process_single_image.
AnalyzeWithVision ==
  /\ variant = "ImageProcessor"
  /\ pc = "normalized"
  /\ \E ok \in BOOLEAN :
       IF ok
       THEN /\ vision_data' = VisionAnswer
            /\ detection' = "ok"
            /\ pc' = "detected"
            /\ UNCHANGED <<idx, results, audit, image_path, original_path, image_bytes,
                           gemini_data, new_path, metadata_status, calls, gen_first,
                           renaming, iptc, xmp>>
       ELSE Return(<<[error |-> "ServiceUnavailable"]>>,
                   Audit(BaseName(image_path), "failed", "none"))
  /\ UNCHANGED <<variant, mode, disk, entries, unit>>

\* _analyze_with_gemini
AnalyzeWithGemini ==
  /\ variant = "ImageProcessor"
  /\ pc = "detected"
  /\ \E outcome \in PipelineOutcomes :
       /\ gemini_data' = AnalyzeWithGeminiResult(outcome)
       /\ calls' = 1
       /\ gen_first' = outcome.exc
  /\ pc' = "described"
  /\ UNCHANGED <<variant, mode, disk, entries, idx, results, audit, image_path,
                 original_path, image_bytes, vision_data, new_path, metadata_status,
                 detection, renaming, iptc, xmp, unit>>

\* new_path = self._rename_file(original_path, gemini_data.get('title', ''))
RenameFile ==
  /\ variant = "ImageProcessor"
  /\ pc = "described"
  /\ \E os_ok \in BOOLEAN :
       LET r == RenameFileResult(disk, original_path, Get(gemini_data, "title", Str(<<>>)), os_ok)
       IN /\ new_path' = r.path
          /\ disk' = r.disk
          /\ renaming' = IF r.failed THEN "failed" ELSE "ok"
  /\ pc' = "renamed"
  /\ UNCHANGED <<variant, mode, entries, idx, results, audit, image_path, original_path,
                 image_bytes, vision_data, gemini_data, metadata_status, calls, gen_first,
                 detection, iptc, xmp, unit>>

\* metadata_status = self._write_metadata(new_path, {...})
WriteMetadata ==
  /\ variant = "ImageProcessor"
  /\ pc = "renamed"
  /\ \E iptc_ok \in BOOLEAN, xmp_ok \in BOOLEAN :
       LET r == WriteMetadataResult(new_path, BaseName(new_path) \in DOMAIN disk, iptc_ok, xmp_ok)
       IN /\ metadata_status' = r.success
          /\ iptc' = r.iptc
          /\ xmp' = r.xmp
  /\ pc' = "written"
  /\ UNCHANGED <<variant, mode, disk, entries, idx, results, audit, image_path,
                 original_path, image_bytes, vision_data, gemini_data, new_path, calls,
                 gen_first, detection, renaming, unit>>

\* The dict process_single_image returns: its own three keys, then the keys of
\* gemini_data over them, then metadata_written and processing_time.
SuccessRecord(original, new, gemini, status) ==
  Merge(Merge([original_file |-> BaseName(original), new_file |-> BaseName(new), path |-> new],
              gemini),
        [metadata_written |-> status, processing_time |-> "elapsed"])

\* return {...}
ProcessSingleImageReturn ==
  /\ variant = "ImageProcessor"
  /\ pc = "written"
  /\ Return(<<SuccessRecord(original_path, new_path, gemini_data, metadata_status)>>,
            Audit(BaseName(image_path), detection, renaming))
  /\ UNCHANGED <<variant, mode, disk, entries, unit>>

\* with open(args.output, "w") as f: json.dump(results, f, indent=2)
MainSaveReport ==
  /\ variant = "ImageProcessor"
  /\ pc = "idle" /\ idx > Len(entries)
  /\ \E ok \in BOOLEAN : pc' = IF ok THEN "saved" ELSE "crashed"
  /\ UNCHANGED <<variant, mode, disk, entries, idx, locals, results, audit, unit>>

\* ------------------------- EnhancedImageTagger (src/vision_gemini_tagger.py)
\* The model starts from a constructed tagger whose two clients answer or fail
\* (_init_clients itself names aiplatform, which the file never imports).

\* main: an entry that fails the extension test is passed over.
EnhancedSkipEntry ==
  /\ variant = "EnhancedImageTagger" /\ mode = "dir"
  /\ pc = "idle" /\ idx <= Len(entries)
  /\ ~Accepted(Entry)
  /\ idx' = idx + 1
  /\ UNCHANGED <<variant, mode, disk, entries, pc, locals, results, audit, unit>>

\* The {"file", "error"} record of process_image's handler.
FailureRecord(path, exc) == [file |-> BaseName(path), error |-> exc]

\* process_image, entry to _resize_image
EnhancedResizeImage ==
  /\ variant = "EnhancedImageTagger"
  /\ pc = "idle" /\ idx <= Len(entries)
  /\ mode = "file" \/ Accepted(Entry)
  /\ \E out \in (IF Entry \in DOMAIN disk THEN {"jpeg", "raw", "ioerror"} ELSE {"ioerror"}) :
       IF out = "ioerror"
       THEN Return(<<FailureRecord(JoinPath(Entry), "IOError")>>, Audit(Entry, "none", "none"))
       ELSE /\ image_path' = JoinPath(Entry)
            /\ image_bytes' = out
            /\ pc' = "normalized"
            /\ UNCHANGED <<idx, results, audit, original_path, vision_data, gemini_data,
                           new_path, metadata_status, calls, gen_first, detection,
                           renaming, iptc, xmp>>
  /\ UNCHANGED <<variant, mode, disk, entries, unit>>

\* _vision_analysis: a remote error is caught and gives two empty lists.
VisionAnalysis ==
  /\ variant = "EnhancedImageTagger"
  /\ pc = "normalized"
  /\ \E ok \in BOOLEAN :
       /\ vision_data' = IF ok THEN VisionAnswer ELSE [labels |-> <<>>, web_entities |-> <<>>]
       /\ detection' = IF ok THEN "ok" ELSE "failed"
  /\ pc' = "detected"
  /\ UNCHANGED <<variant, mode, disk, entries, idx, results, audit, image_path,
                 original_path, image_bytes, gemini_data, new_path, metadata_status,
                 calls, gen_first, renaming, iptc, xmp, unit>>

\* What a further call may meet, after the first.
LaterOutcomes ==
  { RemoteError("ServiceUnavailable"),
    RemoteResponse(TRUE, Plain(ObjectBody(FullObject(<<"p">>)))) }

\* The remote outcomes held ready for the calls of one image: any first one,
\* then up to MaxAttempts - 1 later ones.
OutcomeRuns ==
  { <<first>> \o rest :
      first \in PipelineOutcomes,
      rest \in UNION { [1..n -> LaterOutcomes] : n \in 0..(MaxAttempts - 1) } }

\* _gemini_analysis under its retry decorator
GeminiAnalysis ==
  /\ variant = "EnhancedImageTagger"
  /\ pc = "detected"
  /\ \E outcomes \in OutcomeRuns :
       LET r == RetryGeminiAnalysis(outcomes, 1)
       IN IF r.result.raised
          THEN Return(<<FailureRecord(image_path, r.result.exc)>>,
                      Audit(BaseName(image_path), detection, "none"))
          ELSE /\ gemini_data' = r.result.value
               /\ calls' = r.calls
               /\ gen_first' = outcomes[1].exc
               /\ pc' = "described"
               /\ UNCHANGED <<idx, results, audit, image_path, original_path, image_bytes,
                              vision_data, new_path, metadata_status, detection, renaming,
                              iptc, xmp>>
  /\ UNCHANGED <<variant, mode, disk, entries, unit>>

\* _format_result(image_path, vision_data, gemini_data): the record, or the
\* TypeError of `str + list` when keywords is no list.
FormatResult(path, vision, gemini) ==
  LET keywords == Get(gemini, "keywords", List(<<>>))
  IN IF keywords.t # "list" THEN Raised("TypeError")
     ELSE Returned(
       [file |-> BaseName(path),
        path |-> AbsPath(path),
        title |-> Get(gemini, "title", Str(JoinTokens(Take(vision.labels, 3), " "))),
        description |-> Get(gemini, "description",
                            Str(JoinTokens(Take(vision.web_entities, 3), " "))),
        main_genre |-> Get(gemini, "main_genre", Placeholder),
        secondary_genre |-> Get(gemini, "secondary_genre", Placeholder),
        keywords |-> Str(JoinTokens(keywords.v \o Take(vision.labels, 3), ", ")),
        timestamp |-> "now"])

\* result = self._format_result(...); return result -- or the handler's record
EnhancedFormatResult ==
  /\ variant = "EnhancedImageTagger"
  /\ pc = "described"
  /\ LET r == FormatResult(image_path, vision_data, gemini_data)
     IN Return(<<IF r.raised THEN FailureRecord(image_path, r.exc) ELSE r.value>>,
               Audit(BaseName(image_path), detection, "none"))
  /\ UNCHANGED <<variant, mode, disk, entries, unit>>

\* json.dump(results, f, indent=2, ensure_ascii=False)
EnhancedSaveReport ==
  /\ variant = "EnhancedImageTagger"
  /\ pc = "idle" /\ idx > Len(entries)
  /\ \E ok \in BOOLEAN : pc' = IF ok THEN "saved" ELSE "crashed"
  /\ UNCHANGED <<variant, mode, disk, entries, idx, locals, results, audit, unit>>

\* ----------------------------------------- ImageTagger (src/vision_tagger.py)

\* process_folder: an entry that is no .jpg/.jpeg is passed over.
FolderSkipEntry ==
  /\ variant = "ImageTagger"
  /\ pc = "idle" /\ idx <= Len(entries)
  /\ ~IsJpeg(Entry)
  /\ idx' = idx + 1
  /\ UNCHANGED <<variant, mode, disk, entries, pc, locals, results, audit, unit>>

\* ImageTagger._format_response(response, image_path)
FormatResponse(path, vision) ==
  LET labels == Take(vision.labels, 10)
      web == Take(vision.web_entities, 5)
  IN [file_name |-> BaseName(path),
      file_path |-> AbsPath(path),
      title |-> Str(JoinTokens(Take(labels, 3), " ")),
      description |-> Str(Take(JoinTokens(labels \o web, " "), 200)),
      genre |-> IF web # <<>> THEN Str(<<web[1]>>) ELSE Str(<<"General">>),
      keywords |-> Str(JoinTokens(labels \o web, ", "))]

\* process_folder, one turn of its loop: analyze_image and append, or the
\* handler that prints the error and appends nothing.
FolderAnalyzeImage ==
  /\ variant = "ImageTagger"
  /\ pc = "idle" /\ idx <= Len(entries)
  /\ IsJpeg(Entry)
  /\ \E out \in (IF Entry \in DOMAIN disk THEN {"ok", "ioerror", "remote"} ELSE {"ioerror"}) :
       IF out = "ok"
       THEN Return(<<FormatResponse(JoinPath(Entry), VisionAnswer)>>, Audit(Entry, "ok", "none"))
       ELSE Return(<<>>, Audit(Entry, IF out = "remote" THEN "failed" ELSE "none", "none"))
  /\ UNCHANGED <<variant, mode, disk, entries, unit>>

\* json.dump(results, f, indent=2, ensure_ascii=False)
FolderSaveReport ==
  /\ variant = "ImageTagger"
  /\ pc = "idle" /\ idx > Len(entries)
  /\ \E ok \in BOOLEAN : pc' = IF ok THEN "saved" ELSE "crashed"
  /\ UNCHANGED <<variant, mode, disk, entries, idx, locals, results, audit, unit>>

\* -------------------------------------------------------------------- Spec

Next ==
  \/ MainSkipEntry
  \/ ResizeImage
  \/ AnalyzeWithVision
  \/ AnalyzeWithGemini
  \/ RenameFile
  \/ WriteMetadata
  \/ ProcessSingleImageReturn
  \/ MainSaveReport
  \/ EnhancedSkipEntry
  \/ EnhancedResizeImage
  \/ VisionAnalysis
  \/ GeminiAnalysis
  \/ EnhancedFormatResult
  \/ EnhancedSaveReport
  \/ FolderSkipEntry
  \/ FolderAnalyzeImage
  \/ FolderSaveReport

Spec == Init /\ [][Next]_vars

\* ------------------------------------------- the reconcilers, call by call

\* The pipeline stands still in the function-level specifications.
NoPipeline ==
  /\ variant = "none"
  /\ mode = "none"
  /\ disk = [n \in {} |-> 0]
  /\ entries = <<>>
  /\ idx = 1
  /\ pc = "unit"
  /\ IdleLocals
  /\ results = <<>>
  /\ audit = <<>>

pipeline == <<variant, mode, disk, entries, idx, pc, locals, results, audit>>

TitleValues == {<<"A">>, <<>>}

\* The JSON objects a response may hold: any of the five keys, each present or
\* not, keywords a list or a bare string.
Objects ==
  { [k \in keys |->
       CASE k = "title" -> Str(title)
         [] k = "keywords" -> (IF bare THEN Str(<<"k">>) ELSE List(<<"k">>))
         [] OTHER -> Str(<<"B">>)] :
      keys \in SUBSET RequiredFields, title \in TitleValues, bare \in BOOLEAN }

Bodies ==
  { ObjectBody(o) : o \in Objects }
  \cup { OtherBody(k) : k \in {"nonobject", "garbage", "badbraces"} }

Texts ==
  { Text(pre, open, body, close, post) :
      pre \in BOOLEAN, open \in BOOLEAN, body \in Bodies, close \in BOOLEAN, post \in BOOLEAN }

\* Every generative outcome: an error of each class, a response without its
\* text field, a response with any text.
Outcomes ==
  { RemoteError(e) : e \in ErrorClasses }
  \cup { RemoteResponse(FALSE, Plain(OtherBody("garbage"))) }
  \cup { RemoteResponse(TRUE, t) : t \in Texts }

InitReconciler ==
  /\ NoPipeline
  /\ \E o \in Outcomes : unit = [op |-> "input", outcome |-> o]

\* EnhancedImageTagger._parse_gemini_response on the response of a call that answered
UnitEnhancedParse ==
  /\ unit.op = "input" /\ unit.outcome.kind = "response"
  /\ unit' = [op |-> "EnhancedParse", outcome |-> unit.outcome,
              out |-> EnhancedParseGeminiResponse(unit.outcome)]
  /\ UNCHANGED pipeline

\* ImageProcessor._parse_gemini_response on the text of a response that has one
UnitParse ==
  /\ unit.op = "input" /\ unit.outcome.kind = "response" /\ unit.outcome.hasText
  /\ unit' = [op |-> "Parse", outcome |-> unit.outcome,
              out |-> Returned(ParseGeminiResponse(unit.outcome.text))]
  /\ UNCHANGED pipeline

\* EnhancedImageTagger._gemini_analysis (call and reconciliation) on one outcome
UnitGeminiAnalysis ==
  /\ unit.op = "input"
  /\ unit' = [op |-> "GeminiAnalysis", outcome |-> unit.outcome,
              out |-> RetryGeminiAnalysis(<<unit.outcome>>, 1).result]
  /\ UNCHANGED pipeline

\* ImageProcessor._analyze_with_gemini (call and reconciliation) on one outcome
UnitAnalyzeWithGemini ==
  /\ unit.op = "input"
  /\ unit' = [op |-> "AnalyzeWithGemini", outcome |-> unit.outcome,
              out |-> Returned(AnalyzeWithGeminiResult(unit.outcome))]
  /\ UNCHANGED pipeline

NextReconciler ==
  \/ UnitEnhancedParse
  \/ UnitParse
  \/ UnitGeminiAnalysis
  \/ UnitAnalyzeWithGemini

SpecReconciler == InitReconciler /\ [][NextReconciler]_vars

\* --------------------------------------------- the Filename Deriver, alone

TitleChars == {"a", " ", "\t", "/", "."}

Affixes == UNION { [1..n -> TitleChars] : n \in 0..MaxAffix }

\* n times "a"
Pad(n) == [i \in 1..n |-> "a"]

PadLengths == {0, TruncateAt - 2, TruncateAt}

InitDeriver ==
  /\ NoPipeline
  /\ \E pre \in Affixes, n \in PadLengths, suf \in Affixes,
        name \in {FileName(<<"x">>, ".JPG"), FileName(<<"a">>, ".png")} :
       unit = [op |-> "title", title |-> pre \o Pad(n) \o suf, name |-> name]

\* ImageProcessor._rename_file on a directory that holds the image alone
UnitRenameFile ==
  /\ unit.op = "title"
  /\ unit' = [op |-> "RenameFile", title |-> unit.title, name |-> unit.name,
              out |-> RenameFileResult([n \in {unit.name} |-> 1],
                                       AbsPath(JoinPath(unit.name)),
                                       Str(unit.title), TRUE)]
  /\ UNCHANGED pipeline

NextDeriver == UnitRenameFile

SpecDeriver == InitDeriver /\ [][NextDeriver]_vars

\* ================================================================== claims

\* One record of the report is a failure record.
IsFailure(r) == "error" \in DOMAIN r

\* The error classes the specification calls transient.
Transient == {"DeadlineExceeded", "ServiceUnavailable"}

\* The accepted set of the Batch Driver.
AcceptedExtensions == {".jpg", ".jpeg", ".png", ".JPG", ".JPEG", ".PNG"}

\* The entries of the listing whose extension is in the accepted set, in order.
AcceptedEntries == SelectSeq(entries, LAMBDA n : n.ext \in AcceptedExtensions)

\* The batch pass over a directory is over.
BatchOver == mode = "dir" /\ pc = "idle" /\ idx > Len(entries)

\* C1: in the pipeline that renames and writes metadata, an image whose remote
\* detection call failed still gets a success record (the detection stage hands
\* on empty lists and the run does not end in the failure record).
C1_DetectionAdvisory ==
  variant = "ImageProcessor" =>
    \A i \in DOMAIN audit : audit[i].detection = "failed" => ~IsFailure(results[i])

\* C2: after the batch pass over a directory the report holds exactly one entry
\* per listed file with an accepted extension, in listing order, whatever
\* succeeded or failed on the way.
C2_OneEntryPerAcceptedFile ==
  BatchOver =>
    /\ Len(results) = Len(AcceptedEntries)
    /\ Len(audit) = Len(AcceptedEntries)
    /\ \A i \in DOMAIN audit : audit[i].file = AcceptedEntries[i]

\* The two drivers that go through process_single_image / process_image do
\* hold one entry per accepted file (C2 fails on process_folder alone).
MainReportComplete ==
  (BatchOver /\ variant \in {"ImageProcessor", "EnhancedImageTagger"}) =>
    /\ Len(results) = Len(AcceptedEntries)
    /\ \A i \in DOMAIN audit : audit[i].file = AcceptedEntries[i]

\* C3: every entry of the report is a failure record with file and error and
\* no title, or a success record with the five fields, metadata_written and
\* processing_time.
C3_TwoShapes ==
  variant = "ImageProcessor" =>
    \A i \in DOMAIN results :
      LET r == results[i]
      IN \/ IsFailure(r) /\ "file" \in DOMAIN r /\ "title" \notin DOMAIN r
         \/ /\ ~IsFailure(r)
            /\ (RequiredFields \cup {"metadata_written", "processing_time"}) \subseteq DOMAIN r

\* A reconciler (alone, or with the call before it) has returned.
Reconciled == unit.op \in {"EnhancedParse", "Parse", "GeminiAnalysis", "AnalyzeWithGemini"}

\* C4: for every generative response the reconciler returns without raising,
\* and its record has all five keys, keywords being a sequence.
C4_ReconcilerTotal ==
  Reconciled =>
    /\ ~unit.out.raised
    /\ RequiredFields \subseteq DOMAIN unit.out.value
    /\ unit.out.value["keywords"].t = "list"

\* The text is the body alone: no prose, no fences.
IsPlain(text) == ~text.pre /\ ~text.open /\ ~text.close /\ ~text.post

\* The record of the claim for a parsed object: present keys keep their value,
\* a missing string field gets the placeholder, missing keywords the empty list.
PartialFill(obj) ==
  [k \in (DOMAIN obj) \cup RequiredFields |->
     IF k \in DOMAIN obj THEN obj[k]
     ELSE IF k = "keywords" THEN List(<<>>) ELSE Placeholder]

\* C5: a text that parses to an object missing keys keeps the present keys and
\* fills only the missing ones (keywords with the empty sequence); a text that
\* does not parse gives the five defaults.
C5_PartialVersusTotal ==
  (unit.op \in {"EnhancedParse", "Parse"} /\ unit.outcome.hasText /\ IsPlain(unit.outcome.text)) =>
    /\ unit.outcome.text.body.kind = "object" =>
         ~unit.out.raised /\ unit.out.value = PartialFill(unit.outcome.text.body.obj)
    /\ unit.outcome.text.body.kind = "garbage" =>
         ~unit.out.raised /\ unit.out.value = FullDefault

\* The title the Deriver is given, and the names it tries, for the image at hand.
DerivedTitle == Get(gemini_data, "title", Str(<<>>)).v
Tried(k) == Candidate(Sanitize(DerivedTitle), k, Lower(BaseName(original_path).ext))

\* C6: a rename that goes through gives the file the first of <base><ext>,
\* <base>_1<ext>, <base>_2<ext>, ... that names no file of the directory: every
\* earlier name exists, the chosen one does not, and the file is found under it.
C6_FirstFreeName ==
  [][(pc = "described" /\ pc' = "renamed" /\ renaming' = "ok") =>
       \E k \in 0..Cardinality(DOMAIN disk) :
         /\ BaseName(new_path') = Tried(k)
         /\ \A j \in 0..(k - 1) : Tried(j) \in DOMAIN disk
         /\ Tried(k) \notin DOMAIN disk
         /\ Tried(k) \in DOMAIN disk'
         /\ disk'[Tried(k)] = disk[BaseName(original_path)]
         /\ \A n \in (DOMAIN disk) \ {BaseName(original_path)} :
              n \in DOMAIN disk' /\ disk'[n] = disk[n]]_vars

\* With the names p.jpg and p_1.jpg both taken, an image titled "p" became p_2.jpg.
C6_Witness ==
  /\ pc = "renamed" /\ renaming = "ok"
  /\ DerivedTitle = <<"p">>
  /\ BaseName(new_path) = FileName(<<"p", "_", "2">>, ".jpg")
  /\ FileName(<<"p", "_", "1">>, ".jpg") \in DOMAIN disk

\* The reference mapping of one character.
RefChar(c) == IF c \in Alnum \cup {" ", "-", "_", "."} THEN c ELSE "_"

\* The reference base of a title, by position: from the first character that is
\* no whitespace, at most 50 characters up to the last one that is none, each
\* mapped, and then without the spaces at its end.
RefBase(title) ==
  LET solid == {i \in DOMAIN title : title[i] \notin Whitespace}
  IN IF solid = {} THEN <<>>
     ELSE LET lo == CHOOSE i \in solid : \A j \in solid : i <= j
              hi == CHOOSE i \in solid : \A j \in solid : j <= i
              m == Min(hi - lo + 1, 50)
              mapped == [j \in 1..m |-> RefChar(title[lo + j - 1])]
              ends == {j \in 1..m : mapped[j] # " "}
              n == IF ends = {} THEN 0 ELSE CHOOSE j \in ends : \A e \in ends : e <= j
          IN [j \in 1..n |-> mapped[j]]

\* The lower-case form of each extension.
RefLower == [e \in {".JPG", ".jpg", ".PNG", ".png"} |-> IF e \in {".JPG", ".jpg"} THEN ".jpg" ELSE ".png"]

\* C7: the base of the new name is the reference mapping of the title: at most
\* 50 characters, all of the allowed class, followed (after the counter, if
\* any) by the original extension in lower case.
C7_SanitizedBase ==
  unit.op = "RenameFile" =>
    LET base == RefBase(unit.title)
        new == BaseName(unit.out.path)
    IN /\ Sanitize(unit.title) = base
       /\ Len(base) <= 50
       /\ \A i \in DOMAIN base : base[i] \in Alnum \cup {" ", "-", "_", "."}
       /\ new.ext = RefLower[unit.name.ext]
       /\ new.stem \in {base, base \o <<"_", "1">>}

\* A title longer than 50 characters with a character outside the class was
\* cut and mapped.
C7_Witness ==
  /\ unit.op = "RenameFile"
  /\ Len(unit.title) > 50
  /\ \E i \in 1..50 : unit.title[i] = "/"
  /\ Len(BaseName(unit.out.path).stem) = 50
  /\ unit.name.ext = ".JPG"

\* C8: the generative call is made again after a transient error (deadline
\* exceeded, service unavailable) and not after any other error.
C8_RetryOnTransient ==
  pc = "described" =>
    /\ gen_first \in Transient => calls >= 2
    /\ gen_first \in ErrorClasses \ Transient => calls = 1

\* The extension of a path says JPEG.
JpegPath(path) == BaseName(path).ext \in {".jpg", ".jpeg", ".JPG", ".JPEG"}

\* C9: the legacy write is attempted for .jpg/.jpeg paths only, the extensible
\* write for every path, whatever the legacy write did; the result is true
\* exactly when every attempted write succeeded.
C9_MetadataWriter ==
  pc = "written" =>
    /\ iptc = "skipped" <=> ~JpegPath(new_path)
    /\ iptc \in {"skipped", "ok", "failed"}
    /\ xmp \in {"ok", "failed"}
    /\ metadata_status <=> (iptc # "failed" /\ xmp # "failed")
    /\ ~JpegPath(new_path) => (metadata_status <=> xmp = "ok")

\* A .png whose extensible write went through: legacy skipped, result true.
C9_Witness ==
  /\ pc = "written"
  /\ BaseName(new_path).ext = ".png"
  /\ iptc = "skipped" /\ xmp = "ok" /\ metadata_status

RunOver == mode = "dir" /\ idx > Len(entries)

\* The rename of the image at hand is still to come.
NotYetRenamed == pc \in {"idle", "normalized", "detected", "described"}

\* A success record that reports a path.
HasPath(r) == ~IsFailure(r) /\ "path" \in DOMAIN r

====
